---- MODULE Spec2Model ----
(***************************************************************************)
(* Model of the intent-classification subsystem of erixh/intent_classifier *)
(*                                                                         *)
(*   - the Classification Service   (src/ollama_classifier.py)             *)
(*   - the Resilient Client         (self_labeling.label_with_mistral_api) *)
(*   - the Batch Orchestrator       (self_labeling.pseudo_label_all)       *)
(*   - the ingestion that creates the table rows (file_converter.py)       *)
(*                                                                         *)
(* Text is a sequence of characters.  The alphabet holds a letter in both  *)
(* cases, the blank, and a letter whose title case is two characters long  *)
(* (U+00DF, which capitalize() turns into "Ss"): what strip(), lower() and *)
(* capitalize() distinguish.  SQL NULL and Python None are one-element     *)
(* sequences whose element is no character of the alphabet.                *)
(***************************************************************************)
EXTENDS Integers, Sequences, FiniteSets, TLC

(***************************************************************************)
(* Bounds of the model                                                     *)
(***************************************************************************)
\* number of rows the ingestion inserted into the table
NumRecords == 2
\* number of times pseudo_label_all is started
MaxRuns == 2
\* longest text the generation backend answers with
MaxTextLen == 1
\* longest prompt of a direct request to the service
MaxPromptLen == 1
\* the audit file is followed up to this many lines
MaxAudit == 2
\* longest list of prompts posted to /batch-label
MaxBatch == 2
\* number of direct requests to the service that are followed
MaxRequests == 2
\* longest field value of a 200 body handed to the client's extraction
MaxFieldLen == 3
\* longest model list the generation backend answers /api/tags with
MaxModels == 2
\* number of /classify requests in flight at once
MaxTasks == 2
\* longest text of a backend reply handed to the service's normalization
MaxReplyLen == 4

(***************************************************************************)
(* Program constants                                                       *)
(***************************************************************************)
\* label_with_mistral_api(..., max_retries=3, ...)
max_retries == 3

(***************************************************************************)
(* Text                                                                    *)
(***************************************************************************)
SPACE == " "
\* the letter U+00DF (sharp s): lower case, no one-character upper case
SHARP == "sz"
Alphabet == {"a", "A", SPACE, SHARP}

SeqsUpTo(S, n) == UNION {[1..k -> S] : k \in 0..n}

\* what the generation backend may put in its "response" field
BackendTexts == SeqsUpTo(Alphabet, MaxTextLen)

IsSpace(c) == c = SPACE

LowerChar(c) == IF c = "A" THEN "a" ELSE IF c = "S" THEN "s" ELSE c

\* the title case of a character, which capitalize() puts first
TitleChars(c) == IF c = "a" THEN <<"A">> ELSE IF c = SHARP THEN <<"S", "s">> ELSE <<c>>

\* str.lower()
Lower(s) == [i \in 1..Len(s) |-> LowerChar(s[i])]

RECURSIVE LStrip(_)
LStrip(s) == IF s = <<>> THEN <<>>
             ELSE IF IsSpace(Head(s)) THEN LStrip(Tail(s)) ELSE s

RECURSIVE RStrip(_)
RStrip(s) == IF s = <<>> THEN <<>>
             ELSE IF IsSpace(s[Len(s)]) THEN RStrip(SubSeq(s, 1, Len(s) - 1)) ELSE s

\* str.strip()
Strip(s) == RStrip(LStrip(s))

\* str.capitalize(): first character title-cased, the rest lower-cased
Capitalize(s) == IF s = <<>> THEN <<>> ELSE TitleChars(Head(s)) \o Lower(Tail(s))

RECURSIVE TakeWord(_)
TakeWord(s) == IF s = <<>> \/ IsSpace(Head(s)) THEN <<>>
               ELSE <<Head(s)>> \o TakeWord(Tail(s))

\* text.split()[0] of a text that holds a word
FirstToken(s) == TakeWord(LStrip(s))

\* SQL NULL (a column never written) and Python None
NULL == <<"NULL">>
None == <<"None">>

(***************************************************************************)
(* JSON values and bodies.  A decoded body is a dict; the model follows    *)
(* the three keys the client looks for and one key standing for any other. *)
(***************************************************************************)
Str(s) == [t |-> "str", s |-> s]
Num == [t |-> "num", s |-> <<"5">>]
Absent == [t |-> "absent", s |-> <<>>]

Has(fields, k) == fields[k].t # "absent"

Dict(i, r, x, o) == [json |-> TRUE,
                     fields |-> [intent |-> i, response |-> r, text |-> x, other |-> o]]
Undecodable == [json |-> FALSE,
                fields |-> [intent |-> Absent, response |-> Absent, text |-> Absent, other |-> Absent]]

\* repr() of a JSON value inside str(dict)
Repr(v) == IF v.t = "str" THEN <<"'">> \o v.s \o <<"'">> ELSE v.s

\* str(result) of a dict that holds none of the three keys
StrOfDict(fields) ==
    IF Has(fields, "other")
    THEN <<"{", "'other':", SPACE>> \o Repr(fields.other) \o <<"}">>
    ELSE <<"{", "}">>

(***************************************************************************)
(* Classification Service: the generation backend and /classify            *)
(***************************************************************************)
\* what the generation backend does with one /api/generate call:
\*   ok        200, body {"response": text}
\*   nokey     200, a JSON object without "response"
\*   badtype   200, a JSON object whose "response" is not text
\*   badjson   200, a body that is not JSON
\*   status500 a status other than 200
\*   timeout   no answer within the 30 s deadline
\*   connerr   connection refused
BackendFaults == {"nokey", "badtype", "badjson", "status500", "timeout", "connerr"}
BackendOutcomes == {[kind |-> "ok", text |-> t] : t \in BackendTexts}
                   \cup {[kind |-> k, text |-> <<>>] : k \in BackendFaults}

\* the audit file can be appended to, or opening/writing it raises OSError
AuditOutcomes == {"ok", "fail"}

extract_intent_from_response(raw_response) == Capitalize(Strip(raw_response))

\* mutant: without the except clause for httpx.TimeoutException
classify_with_ollama_NoTimeoutClause(prompt, b) ==
    IF b.kind \in {"ok", "nokey"}
    THEN LET raw_response == Lower(Strip(IF b.kind = "ok" THEN b.text ELSE <<>>))
         IN  [ok |-> TRUE, status |-> 200,
              intent |-> extract_intent_from_response(raw_response),
              raw_response |-> raw_response]
    ELSE [ok |-> FALSE, status |-> 500, intent |-> <<>>, raw_response |-> <<>>]

\* result.get("response", "").strip().lower() and the (intent, raw_response)
\* pair, or the HTTPException the call raises: 504 for a timeout, 500 for
\* everything else that raises inside the try (the HTTPException for a status
\* other than 200, a refused connection, a body json() or strip() fails on)
classify_with_ollama(prompt, b) ==
    IF b.kind \in {"ok", "nokey"}
    THEN LET raw_response == Lower(Strip(IF b.kind = "ok" THEN b.text ELSE <<>>))
         IN  [ok |-> TRUE, status |-> 200,
              intent |-> extract_intent_from_response(raw_response),
              raw_response |-> raw_response]
    ELSE [ok |-> FALSE, status |-> IF b.kind = "timeout" THEN 504 ELSE 500,
          intent |-> <<>>, raw_response |-> <<>>]

\* mutant: the check without the strip()
PromptRejected_NoStrip(prompt) == prompt = <<>>

\* if not request.prompt or not request.prompt.strip()
PromptRejected(prompt) == prompt = <<>> \/ Strip(prompt) = <<>>

AuditLine(prompt, intent) == [input |-> prompt, output |-> intent]

ErrorReply(status, called) ==
    [status |-> status, intent |-> <<>>, raw_response |-> <<>>,
     lines |-> <<>>, called |-> called]

\* POST /classify: the reply (status, and the ClassificationResponse on 200),
\* the lines appended to the audit file and whether the backend was called
classify_intent(prompt, b, aud) ==
    IF PromptRejected(prompt) THEN ErrorReply(400, FALSE)
    ELSE LET r == classify_with_ollama(prompt, b) IN
         IF ~r.ok THEN ErrorReply(r.status, TRUE)
         ELSE IF aud = "fail" THEN ErrorReply(500, TRUE)
         ELSE [status |-> 200, intent |-> r.intent, raw_response |-> r.raw_response,
               lines |-> <<AuditLine(prompt, r.intent)>>, called |-> TRUE]

\* batch_label calls save_to_jsonl by its bare name.  The only definition of
\* that name is local to classify_intent, so at module scope the name is
\* unbound: the call raises NameError before the audit file is touched
batch_save_to_jsonl(prompt, intent) == [raised |-> TRUE, lines |-> <<>>]

\* one iteration of  for prompt in data:  the payload appended to results,
\* the audit lines written and the backend calls made
BatchItem(prompt, b) ==
    LET r == classify_with_ollama(prompt, b) IN
    IF ~r.ok
    THEN [payload |-> [input |-> prompt, ok |-> FALSE, intent |-> <<>>], lines |-> <<>>]
    ELSE LET w == batch_save_to_jsonl(prompt, r.intent) IN
         IF w.raised
         THEN [payload |-> [input |-> prompt, ok |-> FALSE, intent |-> <<>>],
               lines |-> w.lines]
         ELSE [payload |-> [input |-> prompt, ok |-> TRUE, intent |-> r.intent],
               lines |-> w.lines]

RECURSIVE BatchLines(_, _, _)
BatchLines(data, bs, i) ==
    IF i > Len(data) THEN <<>>
    ELSE BatchItem(data[i], bs[i]).lines \o BatchLines(data, bs, i + 1)

\* POST /batch-label
batch_label(data, bs) ==
    [results |-> [i \in 1..Len(data) |-> BatchItem(data[i], bs[i]).payload],
     lines |-> BatchLines(data, bs, 1),
     calls |-> Len(data)]

(***************************************************************************)
(* Backend Health Gate and the readiness endpoints                         *)
(***************************************************************************)
\* model names, as the parts "mistral" is looked for in
ModelNames == {<<"mistral">>, <<"mistral", ":7b">>, <<"llama3">>}

\* what the generation backend does with GET /api/tags:
\*   ok        200, body {"models": [{"name": ...}, ...]}
\*   nokey     200, a JSON object without "models"
\*   noname    200, a model entry without "name"
\*   badjson   200, a body that is not JSON
\*   status500 a status other than 200
\*   timeout, connerr   no answer
TagsFaults == {"nokey", "noname", "badjson", "status500", "timeout", "connerr"}
TagsOutcomes == {[kind |-> "ok", models |-> m] : m \in SeqsUpTo(ModelNames, MaxModels)}
                \cup {[kind |-> k, models |-> <<>>] : k \in TagsFaults}
NoTags == [kind |-> "none", models |-> <<>>]

\* "mistral" in name
MentionsMistral(name) == \E k \in 1..Len(name) : name[k] = "mistral"

\* returns (health, message); every exception is caught and reported
check_ollama_health(tags) ==
    IF tags.kind \in {"ok", "nokey"}
    THEN IF \E k \in 1..Len(tags.models) : MentionsMistral(tags.models[k])
         THEN [health |-> TRUE, message |-> "Ollama and Mistral are ready"]
         ELSE [health |-> FALSE, message |-> "Mistral model not found"]
    ELSE IF tags.kind = "status500"
    THEN [health |-> FALSE, message |-> "Ollama not responding"]
    ELSE [health |-> FALSE, message |-> "Cannot connect to Ollama"]

\* the names bound at module level of ollama_classifier.py that the handlers
\* read; VALID_INTENTS is read by health_check and bound nowhere
ModuleGlobals == {"app", "OLLAMA_URL", "check_ollama_health", "classify_with_ollama",
                  "extract_intent_from_response"}

NoReport == [status |-> "none", ollama_status |-> "none"]

\* GET /
root(tags) ==
    LET h == check_ollama_health(tags) IN
    [status |-> 200,
     report |-> [status |-> IF h.health THEN "healthy" ELSE "warning",
                 ollama_status |-> h.message]]

\* GET /health: building the dict reads VALID_INTENTS; an unbound name raises
\* NameError, which the framework answers with 500
health_check(tags) ==
    LET h == check_ollama_health(tags) IN
    IF "VALID_INTENTS" \in ModuleGlobals
    THEN [status |-> 200,
          report |-> [status |-> IF h.health THEN "healthy" ELSE "degraded",
                      ollama_status |-> h.message]]
    ELSE [status |-> 500, report |-> NoReport]

\* the JSON body of a reply of /classify as the client decodes it
WireBody(r) ==
    IF r.status = 200
    THEN Dict(Str(r.intent), Absent, Absent, Str(r.raw_response))
    ELSE Dict(Absent, Absent, Absent, Str(<<"detail">>))

(***************************************************************************)
(* Resilient Client: label_with_mistral_api                                *)
(***************************************************************************)
\* bodies of a 200 answer of an endpoint that is not the service above
ForeignTexts == SeqsUpTo(Alphabet, MaxTextLen)
ForeignBodies ==
    {Undecodable, Dict(Num, Absent, Absent, Absent), Dict(Absent, Absent, Absent, Absent)}
    \cup {Dict(Str(t), Str(<<"a">>), Absent, Absent) : t \in ForeignTexts}
    \cup {Dict(Absent, Str(t), Str(<<"a">>), Absent) : t \in ForeignTexts}
    \cup {Dict(Absent, Absent, Str(t), Str(<<"a">>)) : t \in ForeignTexts}
    \cup {Dict(Absent, Absent, Absent, Str(t)) : t \in ForeignTexts}

\* mutant: the value cut down to its first word
FieldText_FirstWord(v) ==
    IF v.t = "str"
    THEN [kind |-> "return", value |-> TakeWord(Lower(Strip(v.s)))]
    ELSE [kind |-> "raise", value |-> None]

\* result[key].strip().lower(); a value that is no text has no strip()
FieldText(v) ==
    IF v.t = "str" THEN [kind |-> "return", value |-> Lower(Strip(v.s))]
    ELSE [kind |-> "raise", value |-> None]

\* the status-200 branch: decode the body and extract the intent
handle200(body) ==
    IF ~body.json THEN [kind |-> "decode_error", value |-> None]
    ELSE IF Has(body.fields, "intent") THEN FieldText(body.fields.intent)
    ELSE IF Has(body.fields, "response") THEN FieldText(body.fields.response)
    ELSE IF Has(body.fields, "text") THEN FieldText(body.fields.text)
    ELSE LET text == Lower(Strip(StrOfDict(body.fields)))
         IN  [kind |-> "return",
              value |-> IF text # <<>> THEN FirstToken(text) ELSE <<"navigate">>]

RECURSIVE Pow2(_)
Pow2(n) == IF n = 0 THEN 1 ELSE 2 * Pow2(n - 1)

\* mutant: 2 * attempt for 2 ** attempt
SleepsAfter_Product(attempt, slept) ==
    IF attempt < max_retries - 1 THEN Append(slept, 2 * attempt) ELSE slept

\* mutant: sleeps after the last attempt too
SleepsAfter_Always(attempt, slept) == Append(slept, Pow2(attempt))

\* if attempt < max_retries - 1: time.sleep(2 ** attempt)
SleepsAfter(attempt, slept) ==
    IF attempt < max_retries - 1 THEN Append(slept, Pow2(attempt)) ELSE slept

\* mutant: the rule-based guess of the earlier variant of this function
fallback_classification_Guess(prompt) == <<"navigate">>

\* returns None: no rule-based label is made up
fallback_classification(prompt) == None

(***************************************************************************)
(* Batch Orchestrator: pseudo_label_all, and the ingestion before it       *)
(***************************************************************************)
Ids == 1..NumRecords

ActionWords == <<"Add", "Buy", "Pay", "Open">>

\* the row convert_jsonl_to_sqlite inserts: label_source "raw", the columns
\* it does not name (inferred_intent) and the absent scores NULL
IngestedRow(i) ==
    [id |-> i, domain |-> <<"amazon.com">>, url |-> <<"https://amazon.com/">>,
     page_title |-> <<"Amazon">>, action_text |-> <<ActionWords[((i - 1) % 4) + 1]>>,
     bm25_score |-> NULL, confidence_score |-> NULL,
     label_source |-> "raw", inferred_intent |-> NULL]

build_prompt(domain, action_text) ==
    <<"what is the user's likely intent if they are on ">> \o domain
    \o <<" and click ">> \o action_text \o <<"?">>

RECURSIVE SelectFrom(_, _)
SelectFrom(db, i) ==
    IF i > NumRecords THEN <<>>
    ELSE (IF db[i].inferred_intent = NULL THEN <<i>> ELSE <<>>) \o SelectFrom(db, i + 1)

\* mutant: the SELECT without its WHERE clause
SelectUnlabeled_NoWhere(db) == [i \in 1..NumRecords |-> i]

\* SELECT id, domain, action_text FROM intents WHERE inferred_intent IS NULL
SelectUnlabeled(db) == SelectFrom(db, 1)

\* mutant: the UPDATE without its WHERE clause
UpdateRow_NoWhere(db, id, inferred_intent) ==
    [i \in DOMAIN db |-> [db[i] EXCEPT !.inferred_intent = inferred_intent,
                                       !.label_source = "mistral_api"]]

\* UPDATE intents SET inferred_intent = ?, label_source = ? WHERE id = ?
UpdateRow(db, id, inferred_intent) ==
    [db EXCEPT ![id] = [@ EXCEPT !.inferred_intent = inferred_intent,
                                 !.label_source = "mistral_api"]]

\* if inferred_intent is not None: UPDATE ...  else: print("Skipping ...")
OnResult(db, id, inferred_intent) ==
    IF inferred_intent # None THEN UpdateRow(db, id, inferred_intent) ELSE db

\* the value pseudo_label_all returns: it ends without a return statement
ReturnValue(nselected, nupdated, nskipped) == None

(***************************************************************************)
(* State                                                                   *)
(***************************************************************************)
VARIABLES
    store,      \* the table intents as committed to the database file
    conn,       \* the table as the open connection sees it (uncommitted writes)
    pc,         \* pseudo_label_all: "idle", "loop" (between rows), "call"
    rows,       \* the rows the SELECT of the current run returned (their ids)
    idx,        \* position in rows of the row the loop is at
    nruns,      \* number of times pseudo_label_all was started
    prev,       \* how the run before the current one went
    ended,      \* how the current run ended: "running", "commit", "crash"
    requests,   \* requests.post calls of the current run
    updated,    \* ids the current run executed the UPDATE for
    skipped,    \* ids the current run printed the skip diagnostic for
    failed500,  \* ids whose call printed "failed with status 500" max_retries
                \* times, each for a backend that answered 500
    returned,   \* the value the last completed run returned
    answered,   \* per id, the text T of the backend reply {"response": T} that
                \* the service turned into the 200 answer the row was handled on
    cpc,        \* label_with_mistral_api: "idle", "attempt", "returned", "raised"
    attempt,    \* the loop variable attempt
    slept,      \* the arguments of the time.sleep calls of this call
    nreq,       \* requests.post calls of this call
    last,       \* what the last attempt of this call met
    common,     \* the cause all attempts of this call met, "mixed" when they
                \* differ, "none" before the first
    result,     \* the value the call returned
    audit,      \* the lines of pseudo_labels.jsonl
    served,     \* number of requests made to the service from outside
    req,        \* the last of them, and what backend and audit file did
    reply,      \* the answer the service gave it
    body,       \* a decoded 200 body handed to the extraction on its own
    extracted,  \* what the status-200 branch made of it
    tasks,      \* the /classify requests in flight: where each handler is,
                \* and its open file object
    file,       \* pseudo_labels.jsonl as the pieces written to it
    generated,  \* what the backend did with a generate call followed on its own
    classified  \* what classify_with_ollama made of it

runVars == <<rows, nruns, prev, ended, requests, updated, skipped, failed500, returned,
            answered>>
clientVars == <<cpc, attempt, slept, nreq, last, common, result>>
serviceVars == <<served, req, reply>>
pipelineVars == <<store, conn, pc, idx, runVars, clientVars>>
extractVars == <<body, extracted>>
concurrentVars == <<tasks, file>>
normalizeVars == <<generated, classified>>
otherVars == <<extractVars, concurrentVars, normalizeVars>>
vars == <<pipelineVars, audit, serviceVars, otherVars>>

NoReturn == <<"NoReturn">>
NoRun == [end |-> "none", selected |-> 0, updated |-> 0]
NoAttempt == [met |-> "none", cause |-> "none", status |-> 0, text |-> None]
NoRequest == [kind |-> "none", prompts |-> <<>>, backend |-> <<>>, aud |-> "ok",
              tags |-> NoTags]
NoTask == [pc |-> "idle", prompt |-> <<>>, intent |-> <<>>, status |-> 0,
           pos |-> 0, buffer |-> <<>>]
NoGenerate == [kind |-> "none", text |-> <<>>]
NoClassified == [ok |-> FALSE, status |-> 0, intent |-> <<>>, raw_response |-> <<>>]
NoExtract == [kind |-> "none", value |-> None]
NoReply == [status |-> 0, intent |-> <<>>, raw_response |-> <<>>, results |-> <<>>,
            calls |-> 0, report |-> NoReport]

\* prompt = build_prompt(domain, action) of the row at hand
Prompt == build_prompt(store[rows[idx]].domain, store[rows[idx]].action_text)

InitProgram ==
    /\ store = [i \in Ids |-> IngestedRow(i)]
    /\ conn = store
    /\ pc = "idle"
    /\ rows = <<>>
    /\ idx = 1
    /\ nruns = 0
    /\ prev = NoRun
    /\ ended = "none"
    /\ requests = 0
    /\ updated = {}
    /\ skipped = {}
    /\ failed500 = {}
    /\ returned = NoReturn
    /\ answered = [i \in Ids |-> None]
    /\ cpc = "idle"
    /\ attempt = 0
    /\ slept = <<>>
    /\ nreq = 0
    /\ last = NoAttempt
    /\ common = "none"
    /\ result = None
    /\ audit = <<>>
    /\ served = 0
    /\ req = NoRequest
    /\ reply = NoReply
    /\ extracted = NoExtract
    /\ tasks = [t \in 1..MaxTasks |-> NoTask]
    /\ file = <<>>
    /\ generated = NoGenerate
    /\ classified = NoClassified

Init ==
    /\ InitProgram
    /\ body = Undecodable

(***************************************************************************)
(* pseudo_label_all                                                        *)
(***************************************************************************)
\* connect and SELECT the rows to label
Start ==
    /\ pc = "idle"
    /\ nruns < MaxRuns
    /\ nruns' = nruns + 1
    /\ prev' = [end |-> ended, selected |-> Len(rows), updated |-> Cardinality(updated)]
    /\ conn' = store
    /\ rows' = SelectUnlabeled(store)
    /\ idx' = 1
    /\ ended' = "running"
    /\ requests' = 0
    /\ updated' = {}
    /\ skipped' = {}
    /\ failed500' = {}
    /\ answered' = [i \in Ids |-> None]
    /\ pc' = "loop"
    /\ UNCHANGED <<store, returned, clientVars, audit, serviceVars, otherVars>>

\* inferred_intent = label_with_mistral_api(prompt, api_url): enter the call
CallClient ==
    /\ pc = "loop"
    /\ idx <= Len(rows)
    /\ pc' = "call"
    /\ cpc' = "attempt"
    /\ attempt' = 0
    /\ slept' = <<>>
    /\ nreq' = 0
    /\ last' = NoAttempt
    /\ common' = "none"
    /\ result' = None
    /\ UNCHANGED <<store, conn, idx, runVars, audit, serviceVars, otherVars>>

\* one exchange of the client with its endpoint: the reply of the service
\* to the request, and what handling it did to the audit file
ServiceExchange(prompt, b, aud) ==
    LET r == classify_intent(prompt, b, aud) IN
    [seen |-> "response", status |-> r.status, body |-> WireBody(r),
     lines |-> r.lines,
     cause |-> IF b.kind \in {"ok", "nokey"}
               THEN (IF aud = "ok" THEN "ok" ELSE "audit_fail")
               ELSE "backend_" \o b.kind,
     text |-> IF b.kind = "ok" THEN b.text ELSE None]

\* no reply within the client's own timeout
TimeoutExchange ==
    [seen |-> "timeout", status |-> 0, body |-> Undecodable,
     lines |-> <<>>, cause |-> "timeout", text |-> None]

\* nothing listens at api_url
RefusedExchange ==
    [seen |-> "connerr", status |-> 0, body |-> Undecodable,
     lines |-> <<>>, cause |-> "connerr", text |-> None]

\* api_url is answered 200 by a server that is not the service
ForeignExchange(fb) ==
    [seen |-> "response", status |-> 200, body |-> fb,
     lines |-> <<>>, cause |-> "foreign", text |-> None]

Exchanges(prompt) ==
    {TimeoutExchange, RefusedExchange}
    \cup {ForeignExchange(fb) : fb \in ForeignBodies}
    \cup {ServiceExchange(prompt, b, aud) : b \in BackendOutcomes, aud \in AuditOutcomes}

\* the prompts pseudo_label_all builds, and the exchanges each can meet
RowPrompts == {build_prompt(IngestedRow(i).domain, IngestedRow(i).action_text) : i \in Ids}
ExchangesOf == [p \in RowPrompts |-> Exchanges(p)]

\* what the body of the for loop does with the exchange
Outcome(x) ==
    IF x.seen = "response" /\ x.status = 200 THEN handle200(x.body)
    ELSE [kind |-> IF x.seen = "response" THEN "non200" ELSE x.seen, value |-> None]

\* one iteration of  for attempt in range(max_retries)
Attempt(x) ==
    /\ pc = "call"
    /\ cpc = "attempt"
    /\ Len(audit) + Len(x.lines) <= MaxAudit
    /\ LET o == Outcome(x)
       IN  /\ audit' = audit \o x.lines
           /\ requests' = requests + 1
           /\ nreq' = nreq + 1
           /\ last' = [met |-> o.kind, cause |-> x.cause, status |-> x.status,
                       text |-> x.text]
           /\ common' = IF common \in {"none", x.cause} THEN x.cause ELSE "mixed"
           /\ IF o.kind = "return"
              THEN /\ result' = o.value
                   /\ cpc' = "returned"
                   /\ UNCHANGED <<attempt, slept>>
              ELSE IF o.kind = "raise"
              THEN /\ cpc' = "raised"
                   /\ UNCHANGED <<attempt, slept, result>>
              ELSE /\ slept' = SleepsAfter(attempt, slept)
                   /\ attempt' = attempt + 1
                   /\ IF attempt + 1 < max_retries
                      THEN UNCHANGED <<cpc, result>>
                      ELSE /\ result' = fallback_classification(Prompt)
                           /\ cpc' = "returned"
    /\ UNCHANGED <<store, conn, pc, idx, rows, nruns, prev, ended, updated, skipped,
                   failed500, returned, answered, serviceVars, otherVars>>

\* every attempt of the call at hand met the reply to a backend answering 500
AllBackend500 ==
    /\ nreq = max_retries
    /\ common = "backend_status500"

\* the call returned: UPDATE the row or print the skip diagnostic, next row
Handle ==
    /\ pc = "call"
    /\ cpc = "returned"
    /\ conn' = OnResult(conn, rows[idx], result)
    /\ IF conn' # conn
       THEN updated' = updated \cup {rows[idx]} /\ UNCHANGED skipped
       ELSE skipped' = skipped \cup {rows[idx]} /\ UNCHANGED updated
    /\ failed500' = IF AllBackend500 THEN failed500 \cup {rows[idx]} ELSE failed500
    /\ answered' = IF last.status = 200 /\ last.cause = "ok"
                   THEN [answered EXCEPT ![rows[idx]] = last.text] ELSE answered
    /\ idx' = idx + 1
    /\ pc' = "loop"
    /\ cpc' = "idle"
    /\ attempt' = 0
    /\ slept' = <<>>
    /\ nreq' = 0
    /\ last' = NoAttempt
    /\ common' = "none"
    /\ result' = None
    /\ UNCHANGED <<store, rows, nruns, prev, ended, requests, returned, audit, serviceVars, otherVars>>

\* conn.commit(); conn.close()
Commit ==
    /\ pc = "loop"
    /\ idx > Len(rows)
    /\ store' = conn
    /\ ended' = "commit"
    /\ returned' = ReturnValue(Len(rows), Cardinality(updated), Cardinality(skipped))
    /\ pc' = "idle"
    /\ UNCHANGED <<conn, idx, rows, nruns, prev, requests, updated, skipped,
                   failed500, answered, clientVars, audit, serviceVars, otherVars>>

\* the process ends inside pseudo_label_all: the open transaction is never
\* committed and the database keeps what the last commit left
Abandon ==
    /\ conn' = store
    /\ ended' = "crash"
    /\ pc' = "idle"
    /\ cpc' = "idle"
    /\ attempt' = 0
    /\ slept' = <<>>
    /\ nreq' = 0
    /\ last' = NoAttempt
    /\ common' = "none"
    /\ result' = None
    /\ UNCHANGED <<store, idx, rows, nruns, prev, requests, updated, skipped,
                   failed500, returned, answered, audit, serviceVars, otherVars>>

\* an exception no except clause of the client names leaves the client and
\* pseudo_label_all
Propagate ==
    /\ pc = "call"
    /\ cpc = "raised"
    /\ Abandon

\* the process is killed while pseudo_label_all runs
Crash ==
    /\ pc \in {"loop", "call"}
    /\ cpc # "raised"
    /\ Abandon

Next ==
    \/ Start
    \/ CallClient
    \/ (pc = "call" /\ \E x \in ExchangesOf[Prompt] : Attempt(x))
    \/ Handle
    \/ Commit
    \/ Propagate
    \/ Crash

Spec == Init /\ [][Next]_vars

\* the steps the program takes when nothing kills the process
NextUnkilled ==
    \/ Start
    \/ CallClient
    \/ (pc = "call" /\ \E x \in ExchangesOf[Prompt] : Attempt(x))
    \/ Handle
    \/ Commit
    \/ Propagate

\* the process is not killed, the interpreter goes on to the next statement,
\* and every requests.post ends: with a response, or with the exception the
\* timeout=30 or a refused connection raises
SpecUnkilled == Init /\ [][NextUnkilled]_vars /\ WF_vars(NextUnkilled)

(***************************************************************************)
(* The service as its HTTP clients other than the orchestrator see it      *)
(***************************************************************************)
Prompts == SeqsUpTo({"a", SPACE}, MaxPromptLen)

\* POST /classify with a ClassificationRequest holding prompt
ClassifyRequest(prompt, b, aud) ==
    /\ served < MaxRequests
    /\ LET r == classify_intent(prompt, b, aud) IN
       /\ Len(audit) + Len(r.lines) <= MaxAudit
       /\ audit' = audit \o r.lines
       /\ reply' = [status |-> r.status, intent |-> r.intent,
                    raw_response |-> r.raw_response, results |-> <<>>,
                    calls |-> IF r.called THEN 1 ELSE 0, report |-> NoReport]
    /\ req' = [kind |-> "classify", prompts |-> <<prompt>>, backend |-> <<b>>, aud |-> aud,
               tags |-> NoTags]
    /\ served' = served + 1
    /\ UNCHANGED <<pipelineVars, otherVars>>

\* POST /batch-label with the list data
BatchLabelRequest(data, bs) ==
    /\ served < MaxRequests
    /\ LET r == batch_label(data, bs) IN
       /\ Len(audit) + Len(r.lines) <= MaxAudit
       /\ audit' = audit \o r.lines
       /\ reply' = [status |-> 200, intent |-> <<>>, raw_response |-> <<>>,
                    results |-> r.results, calls |-> r.calls, report |-> NoReport]
    /\ req' = [kind |-> "batch", prompts |-> data, backend |-> bs, aud |-> "ok",
               tags |-> NoTags]
    /\ served' = served + 1
    /\ UNCHANGED <<pipelineVars, otherVars>>

\* GET / while the backend answers /api/tags with tags
RootRequest(tags) ==
    /\ served < MaxRequests
    /\ LET r == root(tags) IN
       reply' = [status |-> r.status, intent |-> <<>>, raw_response |-> <<>>,
                 results |-> <<>>, calls |-> 0, report |-> r.report]
    /\ req' = [kind |-> "root", prompts |-> <<>>, backend |-> <<>>, aud |-> "ok",
               tags |-> tags]
    /\ served' = served + 1
    /\ UNCHANGED <<pipelineVars, audit, otherVars>>

\* GET /health while the backend answers /api/tags with tags
HealthRequest(tags) ==
    /\ served < MaxRequests
    /\ LET r == health_check(tags) IN
       reply' = [status |-> r.status, intent |-> <<>>, raw_response |-> <<>>,
                 results |-> <<>>, calls |-> 0, report |-> r.report]
    /\ req' = [kind |-> "health", prompts |-> <<>>, backend |-> <<>>, aud |-> "ok",
               tags |-> tags]
    /\ served' = served + 1
    /\ UNCHANGED <<pipelineVars, audit, otherVars>>

NextService ==
    \/ \E prompt \in Prompts, b \in BackendOutcomes, aud \in AuditOutcomes :
          ClassifyRequest(prompt, b, aud)
    \/ \E data \in SeqsUpTo(Prompts, MaxBatch) :
          \E bs \in [1..Len(data) -> BackendOutcomes] : BatchLabelRequest(data, bs)
    \/ \E tags \in TagsOutcomes : RootRequest(tags)
    \/ \E tags \in TagsOutcomes : HealthRequest(tags)

SpecService == Init /\ [][NextService]_vars

(***************************************************************************)
(* The status-200 branch of the client on its own, over longer field       *)
(* values and over bodies that hold several of the keys at once            *)
(***************************************************************************)
FieldTexts == SeqsUpTo(Alphabet, MaxFieldLen)

\* the values of the keys that are not varied
FixedValues == {Absent, Num, Str(<<"A", SPACE>>)}
FieldValues == FixedValues \cup {Str(t) : t \in FieldTexts}

ExtractBodies ==
    {Undecodable}
    \cup {Dict(i, r, x, o) : i \in FieldValues, r \in FixedValues, x \in FixedValues,
                              o \in FixedValues}
    \cup {Dict(i, r, x, o) : i \in FixedValues, r \in FieldValues, x \in FixedValues,
                              o \in FixedValues}
    \cup {Dict(i, r, x, o) : i \in FixedValues, r \in FixedValues, x \in FieldValues,
                              o \in FixedValues}
    \cup {Dict(i, r, x, o) : i \in FixedValues, r \in FixedValues, x \in FixedValues,
                              o \in FieldValues}

\* a 200 answer with any of the bodies has arrived
InitExtract ==
    /\ InitProgram
    /\ body \in ExtractBodies

\* if response.status_code == 200: result = response.json() ...
Extract ==
    /\ extracted = NoExtract
    /\ extracted' = handle200(body)
    /\ UNCHANGED <<body, pipelineVars, audit, serviceVars, concurrentVars, normalizeVars>>

NextExtract == Extract

SpecExtract == InitExtract /\ [][NextExtract]_vars

(***************************************************************************)
(* /classify requests in flight at once.  Each handler is a task of the    *)
(* event loop and gives way at every await: the backend call, and the      *)
(* open, write and close of its own file object, which run in a worker     *)
(* thread.  The file is followed as the pieces written to it: the JSON     *)
(* text of a line and its newline.                                         *)
(***************************************************************************)
Tasks == 1..MaxTasks

\* line + "\n" of the task t
LinePieces(t, prompt, intent) ==
    <<[owner |-> t, part |-> "json", line |-> AuditLine(prompt, intent)],
      [owner |-> t, part |-> "newline", line |-> AuditLine(prompt, intent)]>>

\* mutant: a file object that writes at the offset it had when opened
AppendWrite_AtOpenOffset(f, pos, data) ==
    SubSeq(f, 1, pos) \o data \o SubSeq(f, pos + Len(data) + 1, Len(f))

\* one write(2) on a descriptor opened with mode="a" (O_APPEND): the data go
\* to the end of the file as it is at the time of the write, in one piece
AppendWrite(f, pos, data) == f \o data

\* the request arrives: validation of the prompt
Arrive(t, prompt) ==
    /\ tasks[t].pc = "idle"
    /\ tasks' = [tasks EXCEPT ![t] =
                    IF PromptRejected(prompt)
                    THEN [@ EXCEPT !.pc = "done", !.prompt = prompt, !.status = 400]
                    ELSE [@ EXCEPT !.pc = "backend", !.prompt = prompt]]
    /\ UNCHANGED <<file, pipelineVars, audit, serviceVars, extractVars, normalizeVars>>

\* await classify_with_ollama(...) comes back
BackendReturns(t, b) ==
    /\ tasks[t].pc = "backend"
    /\ LET r == classify_with_ollama(tasks[t].prompt, b) IN
       tasks' = [tasks EXCEPT ![t] =
                    IF r.ok THEN [@ EXCEPT !.pc = "open", !.intent = r.intent]
                    ELSE [@ EXCEPT !.pc = "done", !.status = r.status]]
    /\ UNCHANGED <<file, pipelineVars, audit, serviceVars, extractVars, normalizeVars>>

\* async with aiofiles.open(path, mode="a") as f
Open(t, aud) ==
    /\ tasks[t].pc = "open"
    /\ tasks' = [tasks EXCEPT ![t] =
                    IF aud = "ok" THEN [@ EXCEPT !.pc = "write", !.pos = Len(file)]
                    ELSE [@ EXCEPT !.pc = "done", !.status = 500]]
    /\ UNCHANGED <<file, pipelineVars, audit, serviceVars, extractVars, normalizeVars>>

\* await f.write(line + "\n"): the text goes to the buffer of the file object
WriteBuffered(t) ==
    /\ tasks[t].pc = "write"
    /\ tasks' = [tasks EXCEPT ![t] =
                    [@ EXCEPT !.pc = "close",
                              !.buffer = LinePieces(t, tasks[t].prompt,
                                                     tasks[t].intent)]]
    /\ UNCHANGED <<file, pipelineVars, audit, serviceVars, extractVars, normalizeVars>>

\* await f.write(line + "\n") of a line longer than the buffer: it is
\* written through at once
WriteThrough(t) ==
    /\ tasks[t].pc = "write"
    /\ file' = AppendWrite(file, tasks[t].pos,
                           LinePieces(t, tasks[t].prompt, tasks[t].intent))
    /\ tasks' = [tasks EXCEPT ![t] = [@ EXCEPT !.pc = "close"]]
    /\ UNCHANGED <<pipelineVars, audit, serviceVars, extractVars, normalizeVars>>

\* leaving the async with: close() flushes the buffer; return the response
Close(t) ==
    /\ tasks[t].pc = "close"
    /\ file' = IF tasks[t].buffer = <<>> THEN file
               ELSE AppendWrite(file, tasks[t].pos, tasks[t].buffer)
    /\ tasks' = [tasks EXCEPT ![t] = [@ EXCEPT !.pc = "done", !.status = 200,
                                                !.buffer = <<>>]]
    /\ UNCHANGED <<pipelineVars, audit, serviceVars, extractVars, normalizeVars>>

NextConcurrent ==
    \/ \E t \in Tasks, prompt \in Prompts : Arrive(t, prompt)
    \/ \E t \in Tasks, b \in BackendOutcomes : BackendReturns(t, b)
    \/ \E t \in Tasks, aud \in AuditOutcomes : Open(t, aud)
    \/ \E t \in Tasks : WriteBuffered(t)
    \/ \E t \in Tasks : WriteThrough(t)
    \/ \E t \in Tasks : Close(t)

SpecConcurrent == Init /\ [][NextConcurrent]_vars

(***************************************************************************)
(* The backend call of the service on its own, over longer backend texts   *)
(***************************************************************************)
ReplyOutcomes == {[kind |-> "ok", text |-> t] : t \in SeqsUpTo(Alphabet, MaxReplyLen)}
                 \cup {[kind |-> k, text |-> <<>>] : k \in BackendFaults}

\* predicted_intent, raw_response = await classify_with_ollama(...)
Generate(b) ==
    /\ generated = NoGenerate
    /\ generated' = b
    /\ classified' = classify_with_ollama(<<"a">>, b)
    /\ UNCHANGED <<pipelineVars, audit, serviceVars, extractVars, concurrentVars>>

NextNormalize == \E b \in ReplyOutcomes : Generate(b)

SpecNormalize == Init /\ [][NextNormalize]_vars

(***************************************************************************)
(* Properties of the orchestrator and the client                           *)
(***************************************************************************)
\* the value label_source has before any label is written
Unset == "raw"

Labeled(db, i) == db[i].inferred_intent # NULL

\* C1: a row that was classified successfully and that the loop has moved
\* past (j < idx) has its label in the committed table, while the run goes on
\* and after the process ended inside the run
C1_PerRecordDurable ==
    \A j \in 1..Len(rows) :
        (ended \in {"running", "crash"} /\ j < idx /\ rows[j] \in updated)
            => Labeled(store, rows[j])

\* C2: in the committed table, inferred_intent is non-empty (neither NULL nor
\* the empty text) exactly when label_source is not the unset value
C2_IntentIffSource ==
    \A i \in Ids :
        (store[i].inferred_intent \notin {NULL, <<>>}) <=> (store[i].label_source # Unset)

\* C3: when the run before the current one committed and had updated every
\* row it selected, the current run selects nothing, posts no request and
\* executes no UPDATE, and the table is as that run left it
C3_Idempotent ==
    (nruns >= 2 /\ prev.end = "commit" /\ prev.updated = prev.selected)
        => (rows = <<>> /\ requests = 0 /\ updated = {} /\ conn = store)

C3_Witness ==
    /\ nruns = 2
    /\ prev.end = "commit"
    /\ prev.selected = NumRecords
    /\ prev.updated = NumRecords
    /\ ended = "commit"

\* C4: in every step, a committed row that is labeled (or whose label_source
\* is set) stays as it is; a committed row only changes from unlabeled and
\* unset to labeled with a set label_source; and a row the current run
\* skipped is unlabeled and is selected by the next SELECT
C4_Monotone ==
    [][\A i \in Ids :
        /\ (Labeled(store, i) \/ store[i].label_source # Unset) => store'[i] = store[i]
        /\ store'[i] # store[i] =>
              (Labeled(store', i) /\ store'[i].label_source # Unset)
        /\ i \in skipped' =>
              (~Labeled(store', i) /\ \E j \in 1..Len(SelectUnlabeled(store')) :
                                          SelectUnlabeled(store')[j] = i)]_vars

\* a second run has committed a label for a row the first run skipped, next
\* to the row the first run labeled
C4_Witness ==
    /\ nruns = 2
    /\ prev.end = "commit"
    /\ prev.updated = 1
    /\ ended = "commit"
    /\ Cardinality(updated) = 1
    /\ \A i \in 1..2 : Labeled(store, i)

IsSummary(v, a, l, s) ==
    /\ v # None
    /\ v # NoReturn
    /\ v = [attempted |-> a, labeled |-> l, skipped |-> s]

\* C7: a row whose three attempts all met a backend answering 500 is left
\* untouched and counted as skipped, none of those attempts appends an audit
\* line, and the run returns the summary {attempted, labeled, skipped} with
\* attempted = labeled + skipped
C7_Backend500Skipped ==
    [][/\ \A i \in failed500' :
            /\ ~Labeled(conn', i) /\ ~Labeled(store', i)
            /\ i \in skipped'
            /\ ended' = "commit" =>
                 /\ IsSummary(returned', Len(rows'), Cardinality(updated'),
                              Cardinality(skipped'))
                 /\ Len(rows') = Cardinality(updated') + Cardinality(skipped')
       /\ (nreq' = nreq + 1 /\ last'.cause = "backend_status500")
            => audit' = audit]_vars

\* the parts of C7 that do not speak of the summary
C7_Backend500Untouched ==
    [][/\ \A i \in failed500' :
            /\ ~Labeled(conn', i) /\ ~Labeled(store', i)
            /\ i \in skipped'
            /\ ended' = "commit" =>
                 Len(rows') = Cardinality(updated') + Cardinality(skipped')
       /\ (nreq' = nreq + 1 /\ last'.cause = "backend_status500")
            => audit' = audit]_vars

(***************************************************************************)
(* Properties of the service                                               *)
(***************************************************************************)
IsBlank(p) == \A k \in 1..Len(p) : p[k] = SPACE

Classified == served' = served + 1 /\ req'.kind = "classify"
Batched == served' = served + 1 /\ req'.kind = "batch"

\* C8: a /classify request whose prompt is empty or only blanks is answered
\* 400, makes no backend call and leaves the audit file as it was
C8_BlankPromptRejected ==
    [][(Classified /\ IsBlank(req'.prompts[1]))
          => (reply'.status = 400 /\ reply'.calls = 0 /\ audit' = audit)]_vars

\* a prompt of blanks only was rejected while the backend was ready to answer
C8_Witness ==
    /\ req.kind = "classify"
    /\ req.prompts[1] # <<>>
    /\ IsBlank(req.prompts[1])
    /\ req.backend[1].kind = "ok"
    /\ reply.status = 400

BackendSucceeded(b) == b.kind \in {"ok", "nokey"}

\* the intent the service derives from the backend's answer
IntentOf(b) == Capitalize(Strip(Lower(Strip(IF b.kind = "ok" THEN b.text ELSE <<>>))))

RECURSIVE ExpectedLines(_, _, _)
ExpectedLines(data, bs, i) ==
    IF i > Len(data) THEN <<>>
    ELSE (IF BackendSucceeded(bs[i])
          THEN <<[input |-> data[i], output |-> IntentOf(bs[i])]>> ELSE <<>>)
         \o ExpectedLines(data, bs, i + 1)

\* C9: a /classify request answered 200 appends exactly one audit line, with
\* the request's prompt as input and the returned intent as output; one that
\* fails appends none; a /batch-label request appends one such line for each
\* prompt whose backend call succeeded, in order, and none for the others
C9_OneAuditLinePerSuccess ==
    [][/\ Classified =>
            audit' = audit \o (IF reply'.status = 200
                               THEN <<[input |-> req'.prompts[1], output |-> reply'.intent]>>
                               ELSE <<>>)
       /\ Batched => audit' = audit \o ExpectedLines(req'.prompts, req'.backend, 1)]_vars

\* the part of C9 that speaks of /classify
C9_ClassifyAudited ==
    [][Classified =>
            audit' = audit \o (IF reply'.status = 200
                               THEN <<[input |-> req'.prompts[1], output |-> reply'.intent]>>
                               ELSE <<>>)]_vars

\* C10: a /classify request with an accepted prompt whose backend call
\* succeeded is answered 200 with the intent, also when the audit write failed
C10_AuditFaultNotPropagated ==
    (req.kind = "classify" /\ ~IsBlank(req.prompts[1])
        /\ BackendSucceeded(req.backend[1]) /\ req.aud = "fail")
      => (reply.status = 200 /\ reply.intent = IntentOf(req.backend[1]))

\* C11: the result list of a /batch-label request has the length and order of
\* the input, element i carries prompt i as input, is a success payload when
\* the backend call for prompt i succeeded and an error payload when it
\* failed, and the backend is called for every prompt whatever became of the
\* ones before it
C11_BatchPositional ==
    [][Batched =>
          /\ Len(reply'.results) = Len(req'.prompts)
          /\ reply'.calls = Len(req'.prompts)
          /\ \A i \in 1..Len(req'.prompts) :
                /\ reply'.results[i].input = req'.prompts[i]
                /\ reply'.results[i].ok <=> BackendSucceeded(req'.backend[i])
                /\ reply'.results[i].ok =>
                      reply'.results[i].intent = IntentOf(req'.backend[i])]_vars

\* the parts of C11 that do not tell success payloads from error payloads
C11_BatchOrdered ==
    [][Batched =>
          /\ Len(reply'.results) = Len(req'.prompts)
          /\ reply'.calls = Len(req'.prompts)
          /\ \A i \in 1..Len(req'.prompts) :
                /\ reply'.results[i].input = req'.prompts[i]
                /\ ~BackendSucceeded(req'.backend[i]) => ~reply'.results[i].ok]_vars

(***************************************************************************)
(* Properties of the client's extraction                                   *)
(***************************************************************************)
PolicyKeys == <<"intent", "response", "text">>

Least(S) == CHOOSE k \in S : \A j \in S : k <= j
Greatest(S) == CHOOSE k \in S : \A j \in S : j <= k

\* s without its leading and trailing blanks, in lower case
Normalized(s) ==
    LET inner == {k \in 1..Len(s) : s[k] # SPACE} IN
    IF inner = {} THEN <<>>
    ELSE [k \in 1..(Greatest(inner) - Least(inner) + 1) |->
            LET c == s[Least(inner) + k - 1] IN IF c = "A" THEN "a" ELSE c]

\* the part of w before its first blank
UpToBlank(w) ==
    LET blanks == {k \in 1..Len(w) : w[k] = SPACE} IN
    IF blanks = {} THEN w ELSE SubSeq(w, 1, Least(blanks) - 1)

C13_EndToEnd ==
    ended = "commit" =>
        \A i \in Ids :
            answered[i] # None =>
                /\ store[i].inferred_intent = Normalized(answered[i])
                /\ store[i].label_source = "mistral_api"

\* C13 for the texts whose characters have a title case of one character
C13_EndToEndSimpleCase ==
    ended = "commit" =>
        \A i \in Ids :
            (answered[i] # None /\ \A k \in 1..Len(answered[i]) : answered[i][k] # SHARP) =>
                /\ store[i].inferred_intent = Normalized(answered[i])
                /\ store[i].label_source = "mistral_api"

(***************************************************************************)
(* Properties of the run in the face of bad answers                        *)
(***************************************************************************)
\* the step ends the run without a commit
Aborts == ended = "running" /\ ended' = "crash"

\* C14: whatever the call for a row ended in, and unless the process is
\* killed, the loop goes on to the next row with the labels made so far; and a
\* run that committed has been through every selected row and left the label
\* of every row it updated in the committed table
C14_BadRecordNeverAborts ==
    [][/\ (pc = "call" /\ (cpc = "raised" \/ (cpc = "returned" /\ ~Aborts)))
            => /\ pc' = "loop"
               /\ idx' = idx + 1
               /\ ended' = "running"
               /\ updated \subseteq updated'
       /\ (ended = "running" /\ ended' = "commit")
            => /\ idx' > Len(rows')
               /\ \A i \in updated' : Labeled(store', i)]_vars

\* C14 for the calls that returned
C14_ReturnedNeverAborts ==
    [][/\ (pc = "call" /\ cpc = "returned" /\ ~Aborts)
            => /\ pc' = "loop"
               /\ idx' = idx + 1
               /\ ended' = "running"
               /\ updated \subseteq updated'
       /\ (ended = "running" /\ ended' = "commit")
            => /\ idx' > Len(rows')
               /\ \A i \in updated' : Labeled(store', i)]_vars

(***************************************************************************)
(* Properties of the readiness endpoints                                   *)
(***************************************************************************)
Probed == served' = served + 1 /\ req'.kind \in {"root", "health"}

\* the backend answered /api/tags with 200 and lists a mistral model
GateReady(tags) ==
    /\ tags.kind = "ok"
    /\ \E k \in 1..Len(tags.models) : \E j \in 1..Len(tags.models[k]) :
          tags.models[k][j] = "mistral"

\* C15: GET / and GET /health are answered 200 with a status report whatever
\* the backend does: the status is "healthy" exactly when the gate is ready,
\* and "warning" or "degraded" otherwise
C15_ReadinessAlwaysAnswers ==
    [][Probed =>
          /\ reply'.status = 200
          /\ reply'.report.status = "healthy" <=> GateReady(req'.tags)
          /\ reply'.report.status \in {"healthy", "warning", "degraded"}]_vars

\* C15 for GET / alone
C15_RootAlwaysAnswers ==
    [][(Probed /\ req'.kind = "root") =>
          /\ reply'.status = 200
          /\ reply'.report.status = "healthy" <=> GateReady(req'.tags)
          /\ reply'.report.status \in {"healthy", "warning"}]_vars

(***************************************************************************)
(* Properties of the error answers of /classify                            *)
(***************************************************************************)
\* the backend calls that fail: no answer in time, no connection, a status
\* other than 200, a body that is not JSON or whose "response" is not text
FailedBackendKinds == {"timeout", "connerr", "status500", "badjson", "badtype"}

Attempted == nreq' = nreq + 1

\* what the backoff does after attempt number attempt
Backoff ==
    /\ slept' = (IF attempt < max_retries - 1 THEN Append(slept, 2 ^ attempt) ELSE slept)
    /\ attempt' = attempt + 1
    /\ cpc' = "attempt" <=> attempt + 1 < max_retries

\* C17: a call makes at most max_retries attempts; the attempt that meets an
\* HTTP 200 response is the last and is followed by no sleep; and any other
\* attempt i is followed by a sleep of 2^i seconds and attempt i+1 when
\* i < max_retries - 1, and by neither when it was the last
C17_BackoffAnyPattern ==
    [][/\ nreq' <= max_retries
       /\ (Attempted /\ last'.status = 200) => (cpc' # "attempt" /\ slept' = slept)
       /\ (Attempted /\ last'.status # 200) => Backoff]_vars

\* C17 amended: as C17, with a 200 response whose body does not decode
\* counted among the failed attempts
C17_BackoffDecoded ==
    [][/\ nreq' <= max_retries
       /\ (Attempted /\ last'.status = 200 /\ last'.met # "decode_error")
            => (cpc' # "attempt" /\ slept' = slept)
       /\ (Attempted /\ (last'.status # 200 \/ last'.met = "decode_error"))
            => Backoff]_vars

\* after attempts that met different failures, with sleeps of 1 and 2 seconds
\* between them, the third attempt met a 200 response and the call returned
\* its label
C17_Witness ==
    /\ cpc = "returned"
    /\ nreq = max_retries
    /\ common = "mixed"
    /\ last.status = 200
    /\ last.met = "return"
    /\ slept = <<1, 2>>
    /\ result # None

\* the attempt met a 200 response whose body did not decode, or whose value
\* under the key the extraction chose is not text
MetMalformed == Attempted /\ last'.status = 200 /\ last'.met \in {"decode_error", "raise"}

\* C18: an attempt that met a malformed or undecodable 200 body is followed by
\* the backoff and, while attempts remain, by the next attempt; and no call
\* ever ends in an exception: it returns a label or None
C18_MalformedRetryable ==
    [][/\ MetMalformed => Backoff
       /\ cpc' # "raised"
       /\ cpc' = "returned" => (result' = None \/ last'.met = "return")]_vars

\* C18 for the bodies that do not decode
C18_UndecodableRetryable ==
    [][/\ (Attempted /\ last'.status = 200 /\ last'.met = "decode_error") => Backoff
       /\ cpc' = "returned" => (result' = None \/ last'.met = "return")]_vars

(***************************************************************************)
(* Properties of the audit file under requests in flight at once           *)
(***************************************************************************)
\* the lines of owner t in the file: the places where its JSON text stands
LinesOf(t) == {k \in 1..Len(file) : file[k].owner = t /\ file[k].part = "json"}

Frame(row) == [id |-> row.id, domain |-> row.domain, url |-> row.url,
               page_title |-> row.page_title, action_text |-> row.action_text,
               bm25_score |-> row.bm25_score,
               confidence_score |-> row.confidence_score]

Selected(i) == \E j \in 1..Len(rows) : rows[j] = i

\* C20: in every step, in the committed table and in the connection's view,
\* no row appears or disappears and no column but inferred_intent and
\* label_source changes; a committed row changes only if it was selected,
\* unlabeled, and the run executed the UPDATE for it on a result of the
\* client; the connection's view of a row changes, other than by a rollback,
\* only in the step that handles the client's result for that row; and a row
\* the run skipped, or one that was labeled before, is committed as it was
C20_FrameCondition ==
    [][/\ DOMAIN store' = DOMAIN store
       /\ DOMAIN conn' = DOMAIN conn
       /\ \A i \in Ids :
            /\ Frame(store'[i]) = Frame(store[i])
            /\ Frame(conn'[i]) = Frame(conn[i])
            /\ store'[i] # store[i] =>
                  (Selected(i) /\ i \in updated /\ ~Labeled(store, i))
            /\ (conn'[i] # conn[i] /\ conn' # store) =>
                  (cpc = "returned" /\ result # None /\ i = rows[idx] /\ ~Labeled(conn, i))
            /\ (i \in skipped \/ Labeled(store, i)) => store'[i] = store[i]]_vars

\* a run committed the label of one row and left the row it skipped as the
\* ingestion made it
C20_Witness ==
    /\ ended = "commit"
    /\ nruns = 1
    /\ updated = {1}
    /\ skipped = {2}
    /\ Labeled(store, 1)
    /\ store[1].label_source = "mistral_api"
    /\ store[2] = IngestedRow(2)

(***************************************************************************)
(* Termination of a run                                                    *)
(***************************************************************************)
\* the ids the SELECT of the run returned
SelectedIds == {rows[j] : j \in 1..Len(rows)}

\* C21: every run that started commits; until then a call posts at most
\* max_retries requests, only for the row the loop is at, the loop moves from
\* a row to the next one only, and a run ends in no other way than by the
\* commit, with every selected row either updated or skipped and none both
C21_AlwaysTerminates ==
    /\ [][/\ nreq' <= max_retries
          /\ Attempted => (pc = "call" /\ cpc = "attempt" /\ idx <= Len(rows)
                           /\ idx' = idx)
          /\ (idx' # idx /\ ended' = "running" /\ ended = "running") => idx' = idx + 1
          /\ (ended = "running" /\ ended' # "running")
                => /\ ended' = "commit"
                   /\ idx' = Len(rows') + 1
                   /\ updated' \cup skipped' = SelectedIds'
                   /\ updated' \cap skipped' = {}]_vars
    /\ (ended = "running") ~> (ended = "commit")

\* every run that started ends, by the commit or by an exception, and one
\* that ends by the commit has been through every selected row once
C21_AlwaysEnds ==
    /\ [][/\ nreq' <= max_retries
          /\ Attempted => (pc = "call" /\ cpc = "attempt" /\ idx <= Len(rows)
                           /\ idx' = idx)
          /\ (idx' # idx /\ ended' = "running" /\ ended = "running") => idx' = idx + 1
          /\ (ended = "running" /\ ended' = "commit")
                => /\ idx' = Len(rows') + 1
                   /\ updated' \cup skipped' = SelectedIds'
                   /\ updated' \cap skipped' = {}]_vars
    /\ (ended = "running") ~> (ended \in {"commit", "crash"})

(***************************************************************************)
(* Properties of the service's normalization                               *)
(***************************************************************************)
\* the title case of a character
TitleOf(c) == IF c = "a" THEN <<"A">> ELSE IF c = SHARP THEN <<"S", "s">> ELSE <<c>>

\* the title-cased form of a lower-case text: the first letter of every word
\* in title case
RECURSIVE TitleCaseFrom(_, _)
TitleCaseFrom(s, k) ==
    IF k > Len(s) THEN <<>>
    ELSE (IF k = 1 \/ s[k - 1] = SPACE THEN TitleOf(s[k]) ELSE <<s[k]>>)
         \o TitleCaseFrom(s, k + 1)

TitleCase(s) == TitleCaseFrom(s, 1)

\* C22: of a backend call that answered 200 {"response": T}, raw_response is
\* T without its outer blanks and in lower case, and intent is the title-cased
\* form of raw_response
C22_TitleCasedIntent ==
    (generated.kind = "ok" /\ classified.ok) =>
        /\ classified.raw_response = Normalized(generated.text)
        /\ classified.intent = TitleCase(classified.raw_response)

\* C22 with the title case asked of one-word texts only
C22_TitleCasedOneWord ==
    (generated.kind = "ok" /\ classified.ok) =>
        /\ classified.raw_response = Normalized(generated.text)
        /\ (\A k \in 1..Len(classified.raw_response) : classified.raw_response[k] # SPACE)
              => classified.intent = TitleCase(classified.raw_response)

====
